---- MODULE Spec2Model ----
(***************************************************************************)
(* asn1smith: the DER/TLV decoder (src/der_parser.rs) and the tree         *)
(* navigation state of the terminal interface (src/tui/*.rs).              *)
(*                                                                         *)
(* Number representations.  The model checker's integers are narrower     *)
(* than the program's u32 and usize, so the two fixed-width integers that  *)
(* the decoder accumulates by shifting are kept as digit strings:          *)
(*   - a usize is its UsizeBytes big-endian bytes; (x << 8) | b drops the  *)
(*     first byte and appends b;                                           *)
(*   - a u32 tag number is five base-128 digits, the first below 16        *)
(*     (4 + 4*7 = 32 bits); (x << 7) | d drops the high 7 bits and         *)
(*     appends d.                                                          *)
(* Positions, slice lengths and bytes are plain naturals.                  *)
(***************************************************************************)
EXTENDS Integers, Sequences, FiniteSets, TLC

\* Longest byte buffer enumerated exhaustively over Alphabet.
MaxLen == 4

\* Largest viewport height update_tree_scroll is applied with.
MaxHeight == 11

\* Longest buffer the cursor primitives are called on.
MaxCursorLen == 3

\* Width of usize in bytes (64-bit target).
UsizeBytes == 8

\* 0x00 0x01 0x02 0x1F 0x30 0x80 0x81
Alphabet == {0, 1, 2, 31, 48, 128, 129}

RECURSIVE SeqsUpTo(_, _)
SeqsUpTo(S, n) ==
    IF n = 0 THEN {<<>>}
    ELSE LET shorter == SeqsUpTo(S, n - 1)
         IN  shorter \cup {Append(s, b) : s \in {t \in shorter : Len(t) = n - 1}, b \in S}

\* Longer buffers: the inputs of the unit tests of der_parser.rs, and
\* encodings whose tag number or length does not fit the machine integers.
TestBuffers ==
    { <<2, 1, 5>>,
      <<48, 6, 2, 1, 1, 2, 1, 2>>,
      <<2, 1, 1, 2, 1, 2, 2, 1, 3>>,
      <<130, 1, 244>>,
      <<31, 133, 1>> }

WideBuffers ==
    { <<2, 136, 255, 255, 255, 255, 255, 255, 255, 255>>,      \* length 2^64 - 1
      <<2, 137, 1, 0, 0, 0, 0, 0, 0, 0, 0, 2, 0>>,             \* length 2^64
      <<137, 1, 0, 0, 0, 0, 0, 0, 0, 0>>,                      \* length field alone, 2^64
      <<136, 0, 0, 0, 0, 0, 0, 1, 244>>,                       \* length field alone, 500 in 8 bytes
      <<31, 144, 128, 128, 128, 0, 0>>,                        \* tag number 2^32
      <<48, 3, 2, 129, 0>>,                                    \* child with long-form length 0
      <<48, 3, 31, 2, 0>>,                                     \* child with long-form tag 2
      <<48, 5, 2, 1, 1, 2, 128>> }                             \* second child indefinite

\* Tags of the classes and number widths the alphabet does not spell.
TagBuffers ==
    { <<101, 0>>,                                              \* Application, constructed, 5
      <<223, 129, 128, 1>>,                                    \* Private, long form, 16385
      <<255, 143, 255, 255, 255, 127>>,                        \* Private, constructed, 2^32 - 1
      <<31, 128, 128, 128, 128, 128, 5>> }                     \* long form padded with zero digits

\* Constructed objects whose children end at, before or beyond the parent's
\* declared slice, and lengths padded or too wide for the machine word.
NestedBuffers ==
    { <<48, 2, 2, 1, 5>>,                                      \* child's value lies after the parent
      <<48, 2, 5, 0, 5, 0>>,                                   \* a TLV follows the parent
      <<48, 4, 48, 2, 5, 0, 2, 1, 7>>,                         \* nested twice, then an INTEGER
      <<48, 10, 2, 136, 255, 255, 255, 255, 255, 255, 255, 255>>,   \* child length 2^64 - 1
      <<48, 11, 2, 137, 1, 0, 0, 0, 0, 0, 0, 0, 0>>,           \* child length 2^64
      <<2, 137, 1, 0, 0, 0, 0, 0, 0, 0, 0, 5>>,                \* length 2^64, one byte follows
      <<2, 137, 0, 0, 0, 0, 0, 0, 0, 0, 1, 5>>,                \* length 1 in nine bytes
      <<5, 0, 48, 2, 2, 1>> }                                  \* second object's child cut short

Buffers ==
    SeqsUpTo(Alphabet, MaxLen) \cup TestBuffers \cup WideBuffers
        \cup TagBuffers \cup NestedBuffers

(***************************************************************************)
(* Fixed-width integers                                                    *)
(***************************************************************************)
ZeroWord == [i \in 1..UsizeBytes |-> 0]

\* (w << 8) | b on a usize
Shl8Or(w, b) == [i \in 1..UsizeBytes |-> IF i < UsizeBytes THEN w[i + 1] ELSE b]

\* the usize is below 2^24, so Low(w) is its value
IsSmall(w) == \A i \in 1..(UsizeBytes - 3) : w[i] = 0

Low(w) == w[UsizeBytes - 2] * 65536 + w[UsizeBytes - 1] * 256 + w[UsizeBytes]

\* position + n exceeds the usize range (position is below 2^24)
AddOverflows(position, n) ==
    /\ \A i \in 1..(UsizeBytes - 3) : n[i] = 255
    /\ Low(n) + position >= 16777216

\* a u32 from a value below 128
U32(n) == <<0, 0, 0, 0, n>>

\* the accumulation of read_tag without the shift: number | d
Or7_without_shift(x, d) == <<x[1], x[2], x[3], x[4], d>>

\* (x << 7) | d on a u32
Shl7Or(x, d) == <<x[2] % 16, x[3], x[4], x[5], d>>

\* the high 7 bits of the u32 are not all zero: (x << 7) loses them
Shl7Loses(x) == x[1] # 0 \/ x[2] >= 16

(***************************************************************************)
(* DerParser                                                               *)
(***************************************************************************)
NoByte(position) == [some |-> FALSE, byte |-> 0, position |-> position]

peek(input, position) ==
    IF position < Len(input)
    THEN [some |-> TRUE, byte |-> input[position + 1], position |-> position]
    ELSE NoByte(position)

read_byte(input, position) ==
    IF position < Len(input)
    THEN [some |-> TRUE, byte |-> input[position + 1], position |-> position + 1]
    ELSE NoByte(position)

\* is_done that also reports done once anything has been consumed
is_done_after_first(input, position) == position > 0 \/ position >= Len(input)

is_done(input, position) == position >= Len(input)

\* read_n returns Some(slice), None, or panics.  kind is "Some", "None" or
\* "Panic".  checks is the build's overflow-checks setting: with it the
\* addition position + n panics on overflow, without it the sum wraps.
read_n(input, position, n, checks) ==
    LET none  == [kind |-> "None", slice |-> <<>>, position |-> position]
        panic == [kind |-> "Panic", slice |-> <<>>, position |-> position]
        some(end) == [kind |-> "Some",
                      slice |-> SubSeq(input, position + 1, end),
                      position |-> end]
    IN  IF AddOverflows(position, n)
        THEN IF checks
             THEN panic
             ELSE LET end == Low(n) + position - 16777216
                  IN  IF end <= Len(input)
                      THEN IF position <= end THEN some(end) ELSE panic
                      ELSE none
        ELSE IF IsSmall(n) /\ position + Low(n) <= Len(input)
             THEN some(position + Low(n))
             ELSE none

TagClassOf(bits) ==
    CASE bits = 0 -> "Universal"
      [] bits = 1 -> "Application"
      [] bits = 2 -> "ContextSpecific"
      [] bits = 3 -> "Private"

NoTag(position) ==
    [some |-> FALSE, tag |-> [class |-> "Universal", constructed |-> FALSE, number |-> U32(0)],
     position |-> position, wrapped |-> FALSE]

\* The loop of read_tag.  wrapped records whether a shift has discarded
\* non-zero bits of the number (it is not a value the program holds).
RECURSIVE read_tag_loop(_, _, _, _, _, _)
read_tag_loop(input, position, class, constructed, number, wrapped) ==
    LET r == read_byte(input, position)
    IN  IF ~r.some
        THEN NoTag(r.position)
        ELSE LET n2 == Shl7Or(number, r.byte % 128)
                 w2 == wrapped \/ Shl7Loses(number)
             IN  IF r.byte \div 128 = 0
                 THEN [some |-> TRUE,
                       tag |-> [class |-> class, constructed |-> constructed, number |-> n2],
                       position |-> r.position, wrapped |-> w2]
                 ELSE read_tag_loop(input, r.position, class, constructed, n2, w2)

read_tag(input, position) ==
    LET r == read_byte(input, position)
    IN  IF ~r.some
        THEN NoTag(r.position)
        ELSE LET class == TagClassOf(r.byte \div 64)
                 constructed == (r.byte \div 32) % 2 # 0
                 number == r.byte % 32
             IN  IF number = 31
                 THEN read_tag_loop(input, r.position, class, constructed, U32(0), FALSE)
                 ELSE [some |-> TRUE,
                       tag |-> [class |-> class, constructed |-> constructed,
                                number |-> U32(number)],
                       position |-> r.position, wrapped |-> FALSE]

\* big-endian accumulation of the length bytes into a usize
RECURSIVE AccumulateLength(_, _)
AccumulateLength(bytes, length) ==
    IF bytes = <<>> THEN length
    ELSE AccumulateLength(Tail(bytes), Shl8Or(length, Head(bytes)))

\* the byte at the length position is 0x80
MeetsIndefinite(input, position) ==
    position < Len(input) /\ input[position + 1] = 128

\* read_length with the indefinite form read as a length of 0
read_length_indefinite_as_zero(input, position, checks) ==
    LET r == read_byte(input, position)
        first == r.byte
        none(p) == [kind |-> "None", length |-> ZeroWord, position |-> p]
    IN  IF ~r.some
        THEN none(r.position)
        ELSE IF first \div 128 = 0
             THEN [kind |-> "Some", length |-> Shl8Or(ZeroWord, first),
                   position |-> r.position]
             ELSE LET bytes == read_n(input, r.position,
                                      Shl8Or(ZeroWord, first % 128), checks)
                  IN  IF bytes.kind = "Some"
                      THEN [kind |-> "Some",
                            length |-> AccumulateLength(bytes.slice, ZeroWord),
                            position |-> bytes.position]
                      ELSE [kind |-> bytes.kind, length |-> ZeroWord,
                            position |-> bytes.position]

\* read_length: kind is "Some", "None" or "Panic" (a panic of read_n)
read_length(input, position, checks) ==
    LET r == read_byte(input, position)
        first == r.byte
        none(p) == [kind |-> "None", length |-> ZeroWord, position |-> p]
    IN  IF ~r.some
        THEN none(r.position)
        ELSE IF first \div 128 = 0
             THEN [kind |-> "Some", length |-> Shl8Or(ZeroWord, first),
                   position |-> r.position]
             ELSE LET num_bytes == first % 128
                  IN  IF num_bytes = 0
                      THEN none(r.position)
                      ELSE LET bytes == read_n(input, r.position,
                                               Shl8Or(ZeroWord, num_bytes), checks)
                           IN  IF bytes.kind = "Some"
                               THEN [kind |-> "Some",
                                     length |-> AccumulateLength(bytes.slice, ZeroWord),
                                     position |-> bytes.position]
                               ELSE [kind |-> bytes.kind, length |-> ZeroWord,
                                     position |-> bytes.position]

read_value(input, position, length, checks) == read_n(input, position, length, checks)

(***************************************************************************)
(* parse_tlv / parse_all.  A result is                                     *)
(*   [kind |-> "Ok" | "Err" | "Panic", ...]                                *)
(* An object is [tag, value, raw]: value is [kind |-> "Primitive", bytes]  *)
(* or [kind |-> "Constructed", children]; raw is the declared-length value *)
(* slice the object was decoded from.  ev collects what the parser met on  *)
(* the way: "indefinite" (a length byte 0x80), "overrun" (tag and length   *)
(* read, declared length larger than what remains), "tagwrap" (a tag       *)
(* number that lost bits).  raw and ev are history, not program values.    *)
(***************************************************************************)
Failure(kind, err, position, ev) ==
    [kind |-> kind, err |-> err, obj |-> <<>>, objs |-> <<>>, position |-> position, ev |-> ev]

\* remaining bytes of the slice are fewer than the usize length
Overruns(input, position, length) ==
    ~(IsSmall(length) /\ Low(length) <= Len(input) - position)

RECURSIVE parse_tlv(_, _, _), parse_all_loop(_, _, _, _, _)

\* parse_tlv, last step: the value slice v has been read; a constructed
\* value is the result of parse_all on a new parser over the slice
tlv_object(t, ev, v, result) ==
    IF ~t.tag.constructed
    THEN [kind |-> "Ok", err |-> "",
          obj |-> [tag |-> t.tag,
                   value |-> [kind |-> "Primitive", bytes |-> v.slice],
                   raw |-> v.slice],
          objs |-> <<>>, position |-> v.position, ev |-> ev]
    ELSE IF result.kind # "Ok"
    THEN Failure(result.kind, result.err, v.position, ev \cup result.ev)
    ELSE [kind |-> "Ok", err |-> "",
          obj |-> [tag |-> t.tag,
                   value |-> [kind |-> "Constructed", children |-> result.objs],
                   raw |-> v.slice],
          objs |-> <<>>, position |-> v.position, ev |-> ev \cup result.ev]

\* parse_tlv from read_value on: v is what read_value returned
tlv_value(t, ev, v, checks) ==
    IF v.kind = "Panic" THEN Failure("Panic", "", v.position, ev)
    ELSE IF v.kind = "None" THEN Failure("Err", "UnexpectedEOF", v.position, ev)
    ELSE tlv_object(t, ev, v,
                    IF t.tag.constructed
                    THEN parse_all_loop(v.slice, 0, <<>>, {}, checks)
                    ELSE <<>>)

\* parse_tlv from read_length on: l is what read_length returned
tlv_length(input, t, ev, l, checks) ==
    IF l.kind = "Panic" THEN Failure("Panic", "", l.position, ev)
    ELSE IF l.kind = "None"
    THEN Failure("Err", "InvalidLength", l.position,
                 ev \cup (IF MeetsIndefinite(input, t.position)
                          THEN {"indefinite"} ELSE {}))
    ELSE tlv_value(t,
                   ev \cup (IF Overruns(input, l.position, l.length)
                            THEN {"overrun"} ELSE {}),
                   read_value(input, l.position, l.length, checks),
                   checks)

\* parse_tlv from read_tag on: t is what read_tag returned
tlv_tag(input, t, checks) ==
    IF ~t.some THEN Failure("Err", "InvalidTag", t.position, {})
    ELSE tlv_length(input, t, IF t.wrapped THEN {"tagwrap"} ELSE {},
                    read_length(input, t.position, checks), checks)

parse_tlv(input, position, checks) == tlv_tag(input, read_tag(input, position), checks)

\* the match of parse_all with a failure ending the loop as if the input
\* were done: the objects decoded so far are returned
parse_all_match_keeps_partial(input, der_data, ev, object, checks) ==
    IF object.kind = "Ok"
    THEN parse_all_loop(input, object.position, Append(der_data, object.obj),
                        ev \cup object.ev, checks)
    ELSE [kind |-> "Ok", err |-> "", obj |-> <<>>, objs |-> der_data,
          position |-> object.position, ev |-> ev \cup object.ev]

\* the match on parse_tlv's result in the loop of parse_all
parse_all_match(input, der_data, ev, object, checks) ==
    IF object.kind = "Ok"
    THEN parse_all_loop(input, object.position, Append(der_data, object.obj),
                        ev \cup object.ev, checks)
    ELSE Failure(object.kind, object.err, object.position, ev \cup object.ev)

parse_all_loop(input, position, der_data, ev, checks) ==
    IF is_done(input, position)
    THEN [kind |-> "Ok", err |-> "", obj |-> <<>>, objs |-> der_data,
          position |-> position, ev |-> ev]
    ELSE parse_all_match(input, der_data, ev, parse_tlv(input, position, checks), checks)

parse_all(input, position, checks) == parse_all_loop(input, position, <<>>, {}, checks)

(***************************************************************************)
(* OwnedObject::from: the owned copy of a decoded object.  The owned       *)
(* object carries tag, declared length and value (spec section 3/4.2).     *)
(***************************************************************************)
RECURSIVE OwnedObject_from(_)
OwnedObject_from(obj) ==
    [tag |-> obj.tag,
     length |-> Len(obj.raw),
     value |-> IF obj.value.kind = "Constructed"
               THEN [kind |-> "Constructed",
                     children |-> [i \in 1..Len(obj.value.children) |->
                                      OwnedObject_from(obj.value.children[i])]]
               ELSE [kind |-> "Primitive", bytes |-> obj.value.bytes]]

(***************************************************************************)
(* try_decode_input: text to bytes.  A text is a sequence of one-character *)
(* strings.                                                                *)
(***************************************************************************)
HexLower == <<"0", "1", "2", "3", "4", "5", "6", "7", "8", "9", "a", "b", "c", "d", "e", "f">>

HexUpper == <<"0", "1", "2", "3", "4", "5", "6", "7", "8", "9", "A", "B", "C", "D", "E", "F">>

Base64Chars ==
    <<"A", "B", "C", "D", "E", "F", "G", "H", "I", "J", "K", "L", "M", "N", "O", "P",
      "Q", "R", "S", "T", "U", "V", "W", "X", "Y", "Z", "a", "b", "c", "d", "e", "f",
      "g", "h", "i", "j", "k", "l", "m", "n", "o", "p", "q", "r", "s", "t", "u", "v",
      "w", "x", "y", "z", "0", "1", "2", "3", "4", "5", "6", "7", "8", "9", "+", "/">>

IsHexDigit(c) == \E i \in 1..16 : HexLower[i] = c \/ HexUpper[i] = c

HexVal(c) == (CHOOSE i \in 1..16 : HexLower[i] = c \/ HexUpper[i] = c) - 1

IsBase64Char(c) == \E i \in 1..64 : Base64Chars[i] = c

Base64Val(c) == (CHOOSE i \in 1..64 : Base64Chars[i] = c) - 1

\* str::lines: the text split at "\n", without a final empty line
RECURSIVE LinesFrom(_, _)
LinesFrom(text, line) ==
    IF text = <<>> THEN (IF line = <<>> THEN <<>> ELSE <<line>>)
    ELSE IF Head(text) = "\n" THEN <<line>> \o LinesFrom(Tail(text), <<>>)
    ELSE LinesFrom(Tail(text), Append(line, Head(text)))

StartsWithDashes(line) == Len(line) >= 5 /\ \A i \in 1..5 : line[i] = "-"

RECURSIVE JoinKept(_)
JoinKept(ls) ==
    IF ls = <<>> THEN <<>>
    ELSE (IF StartsWithDashes(Head(ls)) THEN <<>> ELSE Head(ls)) \o JoinKept(Tail(ls))

\* hex::decode: an even number of hex digits, two per byte
hex_decode(text) ==
    IF Len(text) % 2 = 0 /\ \A i \in 1..Len(text) : IsHexDigit(text[i])
    THEN [ok |-> TRUE,
          bytes |-> [i \in 1..(Len(text) \div 2) |->
                        HexVal(text[2 * i - 1]) * 16 + HexVal(text[2 * i])]]
    ELSE [ok |-> FALSE, bytes |-> <<>>]

\* base64 STANDARD engine: canonical padding required, no trailing bits
base64_decode(text) ==
    LET n == Len(text)
        pad == IF n >= 1 /\ text[n] = "="
               THEN (IF n >= 2 /\ text[n - 1] = "=" THEN 2 ELSE 1)
               ELSE 0
        m == n - pad
        v(i) == Base64Val(text[i])
        wellformed ==
            /\ n % 4 = 0
            /\ \A i \in 1..m : IsBase64Char(text[i])
            /\ pad = 1 => v(m) % 4 = 0
            /\ pad = 2 => v(m) % 16 = 0
        nbytes == (n \div 4) * 3 - pad
        byteAt(k) ==
            LET g == 4 * ((k - 1) \div 3)
                r == (k - 1) % 3
            IN  CASE r = 0 -> v(g + 1) * 4 + v(g + 2) \div 16
                  [] r = 1 -> (v(g + 2) % 16) * 16 + v(g + 3) \div 4
                  [] r = 2 -> (v(g + 3) % 4) * 64 + v(g + 4)
    IN  IF wellformed
        THEN [ok |-> TRUE, bytes |-> [k \in 1..nbytes |-> byteAt(k)]]
        ELSE [ok |-> FALSE, bytes |-> <<>>]

try_decode_input(text) ==
    LET cleaned == JoinKept(LinesFrom(text, <<>>))
        h == hex_decode(cleaned)
    IN  IF h.ok THEN h ELSE base64_decode(cleaned)

(***************************************************************************)
(* Tree navigation (src/tui/tree.rs).  Paths hold 0-based indices.         *)
(***************************************************************************)
NoObject == [some |-> FALSE, obj |-> <<>>]

SomeObject(o) == [some |-> TRUE, obj |-> o]

\* slice.get(idx)
Get(objects, idx) ==
    IF idx < Len(objects) THEN SomeObject(objects[idx + 1]) ELSE NoObject

IsConstructed(o) == o.value.kind = "Constructed"

\* the loop over path.iter().skip(1), from the object `current`
RECURSIVE WalkChildren(_, _)
WalkChildren(current, rest) ==
    IF rest = <<>> THEN SomeObject(current)
    ELSE IF IsConstructed(current)
         THEN LET c == Get(current.value.children, Head(rest))
              IN  IF c.some THEN WalkChildren(c.obj, Tail(rest)) ELSE NoObject
         ELSE NoObject

get_selected_object(objects, path) ==
    LET first == Get(objects, 0)
    IN  IF ~first.some THEN NoObject
        ELSE WalkChildren(first.obj, IF path = <<>> THEN <<>> ELSE Tail(path))

get_object_by_path(objects, path) ==
    IF path = <<>> THEN NoObject
    ELSE LET first == Get(objects, path[1])
         IN  IF ~first.some THEN NoObject
             ELSE WalkChildren(first.obj, Tail(path))

\* render_object_with_index: the items pushed for one object, each item
\* kept as the path of the node it shows
RECURSIVE render_object_with_index(_, _, _)
render_object_with_index(object, path, collapsed) ==
    LET RECURSIVE kids(_)
        kids(i) ==
            IF i > Len(object.value.children) THEN <<>>
            ELSE render_object_with_index(object.value.children[i],
                                          Append(path, i - 1), collapsed)
                     \o kids(i + 1)
    IN  <<path>> \o (IF IsConstructed(object) /\ path \notin collapsed
                     THEN kids(1) ELSE <<>>)

RECURSIVE ItemsFrom(_, _, _)
ItemsFrom(objects, i, collapsed) ==
    IF i > Len(objects) THEN <<>>
    ELSE render_object_with_index(objects[i], <<i - 1>>, collapsed)
             \o ItemsFrom(objects, i + 1, collapsed)

\* tui_list_items: the flattened list and the selected index (0 when the
\* selected path is not an item)
tui_list_items(objects, path, collapsed) ==
    LET items == ItemsFrom(objects, 1, collapsed)
        hits == {i \in 1..Len(items) : items[i] = path}
    IN  [items |-> items,
         selected_idx |-> IF hits = {} THEN 0
                          ELSE (CHOOSE i \in hits : \A j \in hits : j <= i) - 1]

\* update_tree_scroll without the branch for a selection below the window
update_tree_scroll_upward_only(objects, path, collapsed, scroll, height) ==
    LET selected_idx == tui_list_items(objects, path, collapsed).selected_idx
    IN  IF selected_idx < scroll THEN selected_idx ELSE scroll

update_tree_scroll(objects, path, collapsed, scroll, area_height) ==
    LET selected_idx == tui_list_items(objects, path, collapsed).selected_idx
    IN  IF selected_idx < scroll THEN selected_idx
        ELSE IF selected_idx >= scroll + area_height THEN selected_idx + 1 - area_height
        ELSE scroll

ButLast(path) == SubSeq(path, 1, Len(path) - 1)

Last(path) == path[Len(path)]

\* the while-let loop of move_selection_up
RECURSIVE DescendLast(_, _, _)
DescendLast(objects, path, collapsed) ==
    LET o == get_selected_object(objects, path)
    IN  IF o.some /\ IsConstructed(o.obj) /\ o.obj.value.children # <<>>
           /\ path \notin collapsed
        THEN DescendLast(objects, Append(path, Len(o.obj.value.children) - 1), collapsed)
        ELSE path

\* move_selection_up without the test for the top level before the pop
move_selection_up_pops_top(objects, path, collapsed) ==
    IF path = <<>> THEN path
    ELSE IF Last(path) > 0
         THEN DescendLast(objects, Append(ButLast(path), Last(path) - 1), collapsed)
         ELSE ButLast(path)

\* the selected path move_selection_up leaves
move_selection_up(objects, path, collapsed) ==
    IF path = <<>> THEN path
    ELSE IF Last(path) > 0
         THEN DescendLast(objects, Append(ButLast(path), Last(path) - 1), collapsed)
         ELSE IF Len(path) > 1 THEN ButLast(path) ELSE path

\* the sibling search of move_selection_down, from the working copy `path`
RECURSIVE NextSibling(_, _, _)
NextSibling(objects, selected, path) ==
    IF path = <<>> THEN selected
    ELSE LET check_path == Append(ButLast(path), Last(path) + 1)
         IN  IF get_object_by_path(objects, check_path).some
             THEN check_path
             ELSE NextSibling(objects, selected, ButLast(path))

\* move_selection_down without the test of the collapse set
move_selection_down_enters_collapsed(objects, path, collapsed) ==
    LET o == get_selected_object(objects, path)
    IN  IF o.some /\ IsConstructed(o.obj) /\ o.obj.value.children # <<>>
        THEN Append(path, 0)
        ELSE NextSibling(objects, path, path)

\* the selected path move_selection_down leaves
move_selection_down(objects, path, collapsed) ==
    LET o == get_selected_object(objects, path)
        can_descend == o.some /\ IsConstructed(o.obj) /\ o.obj.value.children # <<>>
                       /\ path \notin collapsed
    IN  IF can_descend THEN Append(path, 0)
        ELSE NextSibling(objects, path, path)

\* the collapse set toggle_collapse leaves
toggle_collapse(objects, path, collapsed) ==
    LET o == get_selected_object(objects, path)
    IN  IF o.some /\ IsConstructed(o.obj)
        THEN IF path \in collapsed THEN collapsed \ {path} ELSE collapsed \cup {path}
        ELSE collapsed

(***************************************************************************)
(* get_tag_length_value_bytes (src/tui/ui.rs): the tag, length and value   *)
(* bytes of an owned object, synthesized from its fields.                  *)
(***************************************************************************)
ClassBits(class) ==
    CASE class = "Universal" -> 0
      [] class = "Application" -> 1
      [] class = "ContextSpecific" -> 2
      [] class = "Private" -> 3

\* tag.number < 31
Below31(number) == (\A i \in 1..4 : number[i] = 0) /\ number[5] < 31

\* the digits of a number from its first non-zero digit on: what the
\* loops "while n > 0 { push(n & mask); n >>= bits }" collect, reversed
RECURSIVE StripLeadingZeros(_)
StripLeadingZeros(digits) ==
    IF digits = <<>> THEN <<>>
    ELSE IF Head(digits) = 0 THEN StripLeadingZeros(Tail(digits))
    ELSE digits

\* the bytes of a non-zero length, most significant first
RECURSIVE LenBytes(_)
LenBytes(len) ==
    IF len = 0 THEN <<>> ELSE Append(LenBytes(len \div 256), len % 256)

\* the tag bytes without the continuation bit on the leading digits
SynthTagBytes_without_continuation(tag) ==
    IF Below31(tag.number)
    THEN <<ClassBits(tag.class) * 64 + (IF tag.constructed THEN 32 ELSE 0) + tag.number[5]>>
    ELSE <<ClassBits(tag.class) * 64 + (IF tag.constructed THEN 32 ELSE 0) + 31>>
         \o StripLeadingZeros(tag.number)

SynthTagBytes(tag) ==
    LET first_byte == ClassBits(tag.class) * 64 + (IF tag.constructed THEN 32 ELSE 0)
        stack == StripLeadingZeros(tag.number)
    IN  IF Below31(tag.number)
        THEN <<first_byte + tag.number[5]>>
        ELSE <<first_byte + 31>>
             \o [i \in 1..Len(stack) |->
                    IF i # Len(stack) THEN stack[i] + 128 ELSE stack[i]]

\* 0x80 | count: a usize has at most UsizeBytes bytes, so the count is below 128
SynthLengthBytes(length) ==
    IF length < 128 THEN <<length>>
    ELSE <<128 + Len(LenBytes(length))>> \o LenBytes(length)

RECURSIVE get_tag_length_value_bytes(_)
get_tag_length_value_bytes(obj) ==
    LET RECURSIVE kids(_)
        kids(i) ==
            IF i > Len(obj.value.children) THEN <<>>
            ELSE LET c == get_tag_length_value_bytes(obj.value.children[i])
                 IN  c.tag_bytes \o c.length_bytes \o c.value_bytes \o kids(i + 1)
    IN  [tag_bytes |-> SynthTagBytes(obj.tag),
         length_bytes |-> SynthLengthBytes(obj.length),
         value_bytes |-> IF obj.value.kind = "Primitive"
                         THEN obj.value.bytes
                         ELSE kids(1)]

(***************************************************************************)
(* State                                                                   *)
(***************************************************************************)
VARIABLES
    mode,                  \* App.mode: "Input" or "View"
    input_buffer,          \* App.input_buffer: the text typed so far
    should_quit,           \* App.should_quit
    buffer,                \* App.buffer: the bytes of the last decodable text
    parsed_objects,        \* App.parsed_objects: the owned tree
    selected_path,         \* App.selected_path
    collapsed_nodes,       \* App.collapsed_nodes
    show_help,             \* App.show_help
    tree_scroll,           \* App.tree_scroll
    show_hex_modal,        \* App.show_hex_modal
    copy_hex_to_clipboard, \* App.copy_hex_to_clipboard
    panicked,              \* the process has aborted with a panic
    overflow_checks,       \* the build's overflow-checks setting
    input,                 \* DerParser.input of a parser under test
    op,                    \* the DerParser operation applied to it ("new": none yet)
    out                    \* what that operation returned

appvars == <<mode, input_buffer, should_quit, buffer, parsed_objects, selected_path,
             collapsed_nodes, show_help, tree_scroll, show_hex_modal,
             copy_hex_to_clipboard, panicked>>

parservars == <<input, op, out>>

vars == <<appvars, overflow_checks, parservars>>

\* the App struct as one value
App ==
    [mode |-> mode, input_buffer |-> input_buffer, should_quit |-> should_quit,
     buffer |-> buffer, parsed_objects |-> parsed_objects,
     selected_path |-> selected_path, collapsed_nodes |-> collapsed_nodes,
     show_help |-> show_help, tree_scroll |-> tree_scroll,
     show_hex_modal |-> show_hex_modal,
     copy_hex_to_clipboard |-> copy_hex_to_clipboard, panicked |-> panicked]

\* App::new
App_new ==
    [mode |-> "Input", input_buffer |-> <<>>, should_quit |-> FALSE,
     buffer |-> <<>>, parsed_objects |-> <<>>, selected_path |-> <<>>,
     collapsed_nodes |-> {}, show_help |-> FALSE, tree_scroll |-> 0,
     show_hex_modal |-> FALSE, copy_hex_to_clipboard |-> FALSE, panicked |-> FALSE]

\* the fallback tree-area height handle_input passes to the moves
area_height == 10

(***************************************************************************)
(* handle_input (src/tui/events.rs).  A key is [code, ch, ctrl]: code is   *)
(* "Char", "Esc", "Tab", "Backspace", "Enter" or "Other"; ch is the        *)
(* character of a Char key; ctrl is the CONTROL modifier.                  *)
(***************************************************************************)
CharKey(c) == [code |-> "Char", ch |-> c, ctrl |-> FALSE]

CtrlKey(c) == [code |-> "Char", ch |-> c, ctrl |-> TRUE]

PlainKey(code) == [code |-> code, ch |-> "", ctrl |-> FALSE]

IsChar(key, c) == key.code = "Char" /\ key.ch = c

\* the Ctrl-R arm dropping the old tree when parse_all fails
ctrl_r_parsed_drops_tree(app, result) ==
    IF result.kind = "Ok"
    THEN [app EXCEPT !.parsed_objects = [i \in 1..Len(result.objs) |->
                                            OwnedObject_from(result.objs[i])],
                     !.selected_path = <<0>>,
                     !.mode = "View"]
    ELSE IF result.kind = "Err"
    THEN [app EXCEPT !.parsed_objects = <<>>, !.selected_path = <<0>>]
    ELSE [app EXCEPT !.panicked = TRUE]

\* the match on parse_all's result in the Ctrl-R arm
ctrl_r_parsed(app, result) ==
    IF result.kind = "Ok"
    THEN [app EXCEPT !.parsed_objects = [i \in 1..Len(result.objs) |->
                                            OwnedObject_from(result.objs[i])],
                     !.selected_path = <<0>>,
                     !.mode = "View"]
    ELSE IF result.kind = "Err" THEN app
    ELSE [app EXCEPT !.panicked = TRUE]

\* the Ctrl-R arm from try_decode_input's result on
ctrl_r_decoded(app, decoded, checks) ==
    IF decoded.ok
    THEN ctrl_r_parsed([app EXCEPT !.buffer = decoded.bytes],
                       parse_all(decoded.bytes, 0, checks))
    ELSE app

\* the Ctrl-R arm: decode the text, parse the bytes, install the tree
ctrl_r(app, checks) == ctrl_r_decoded(app, try_decode_input(app.input_buffer), checks)

\* the arms of AppMode::Input, in match order
input_mode_key(app, key, checks) ==
    IF IsChar(key, "?") THEN [app EXCEPT !.show_help = TRUE]
    ELSE IF IsChar(key, "u") /\ key.ctrl THEN [app EXCEPT !.input_buffer = <<>>]
    ELSE IF key.code = "Esc" THEN [app EXCEPT !.mode = "View"]
    ELSE IF key.code = "Tab" THEN [app EXCEPT !.mode = "View"]
    ELSE IF IsChar(key, "r") /\ key.ctrl THEN ctrl_r(app, checks)
    ELSE IF key.code = "Backspace"
         THEN [app EXCEPT !.input_buffer =
                   IF @ = <<>> THEN @ ELSE SubSeq(@, 1, Len(@) - 1)]
    ELSE IF key.code = "Enter" THEN [app EXCEPT !.input_buffer = Append(@, "\n")]
    ELSE IF key.code = "Char" THEN [app EXCEPT !.input_buffer = Append(@, key.ch)]
    ELSE app

\* move_selection_down / move_selection_up with the trailing update_tree_scroll
moved(app, path) ==
    [app EXCEPT !.selected_path = path,
                !.tree_scroll = update_tree_scroll(app.parsed_objects, path,
                                                   app.collapsed_nodes, @, area_height)]

\* the arms of AppMode::View, in match order
view_mode_key(app, key) ==
    IF IsChar(key, "q") THEN [app EXCEPT !.should_quit = TRUE]
    ELSE IF IsChar(key, "i") THEN [app EXCEPT !.mode = "Input"]
    ELSE IF key.code = "Tab" THEN [app EXCEPT !.mode = "Input"]
    ELSE IF IsChar(key, "h") \/ IsChar(key, "l")
         THEN [app EXCEPT !.collapsed_nodes =
                   toggle_collapse(app.parsed_objects, app.selected_path, @)]
    ELSE IF IsChar(key, "j")
         THEN moved(app, move_selection_down(app.parsed_objects, app.selected_path,
                                             app.collapsed_nodes))
    ELSE IF IsChar(key, "k")
         THEN moved(app, move_selection_up(app.parsed_objects, app.selected_path,
                                           app.collapsed_nodes))
    ELSE IF IsChar(key, "d") \/ IsChar(key, "a") THEN app
    ELSE IF IsChar(key, "x") THEN [app EXCEPT !.show_hex_modal = TRUE]
    ELSE IF key.code = "Esc" THEN [app EXCEPT !.show_hex_modal = FALSE]
    ELSE IF IsChar(key, "?") THEN [app EXCEPT !.show_help = TRUE]
    ELSE app

\* handle_input with the help overlay closed by the key and the key then
\* handled as usual
handle_input_help_passes_key(app, key, checks) ==
    IF app.mode = "Input"
    THEN input_mode_key([app EXCEPT !.show_help = FALSE, !.copy_hex_to_clipboard = FALSE],
                        key, checks)
    ELSE view_mode_key([app EXCEPT !.show_help = FALSE, !.copy_hex_to_clipboard = FALSE], key)

handle_input(app, key, checks) ==
    IF app.show_help
    THEN [app EXCEPT !.show_help = FALSE]
    ELSE IF app.show_hex_modal /\ IsChar(key, "c") /\ key.ctrl
    THEN [app EXCEPT !.copy_hex_to_clipboard = TRUE]
    ELSE LET a == [app EXCEPT !.copy_hex_to_clipboard = FALSE]
         IN  IF a.mode = "Input"
             THEN input_mode_key(a, key, checks)
             ELSE view_mode_key(a, key)

(***************************************************************************)
(* The texts the operator types.  Typing is bounded to the prefixes of     *)
(* these texts:                                                            *)
(*   30 02 05 00 05 00   a SEQUENCE of one NULL, then a top-level NULL     *)
(*   MAA=                base64 of 30 00, an empty SEQUENCE                *)
(* Their prefixes give the empty text, texts that are neither hex nor      *)
(* base64, and byte strings that do not parse.                             *)
(***************************************************************************)
SampleTexts ==
    { <<"3", "0", "0", "2", "0", "5", "0", "0", "0", "5", "0", "0">>,
      <<"M", "A", "A", "=">> }

SamplePrefixes == UNION {{SubSeq(t, 1, n) : n \in 0..Len(t)} : t \in SampleTexts}

TextChars == {"0", "2", "3", "5", "M", "A", "="}

\* Texts decoded before the navigation is exercised:
\*   05 00 30 02 05 00                          NULL, SEQUENCE{NULL}
\*   30 04 05 00 05 00 30 06 30 02 05 00 05 00  SEQUENCE{NULL, NULL},
\*                                              SEQUENCE{SEQUENCE{NULL}, NULL}
\*   30 04 30 02 05 00 05 00                    SEQUENCE{SEQUENCE{NULL}}, NULL
\*   30 16 05 00 (eleven times) 05 00           SEQUENCE of eleven NULLs, NULL:
\*                                              more items than area_height
TreeTexts ==
    { <<"0", "5", "0", "0", "3", "0", "0", "2", "0", "5", "0", "0">>,
      <<"3", "0", "0", "4", "0", "5", "0", "0", "0", "5", "0", "0",
        "3", "0", "0", "6", "3", "0", "0", "2", "0", "5", "0", "0", "0", "5", "0", "0">>,
      <<"3", "0", "0", "4", "3", "0", "0", "2", "0", "5", "0", "0", "0", "5", "0", "0">>,
      <<"3", "0", "1", "6">>
          \o [i \in 1..48 |-> IF i % 4 = 2 THEN "5" ELSE "0"] }

\* one pass of the event loop of run_ui: a key event is handled unless the
\* loop has ended (should_quit) or the process has aborted
Press(key) ==
    /\ ~should_quit
    /\ ~panicked
    /\ \E n \in {handle_input(App, key, overflow_checks)} :
           /\ n.input_buffer \in SamplePrefixes \cup TreeTexts
           /\ mode' = n.mode
           /\ input_buffer' = n.input_buffer
           /\ should_quit' = n.should_quit
           /\ buffer' = n.buffer
           /\ parsed_objects' = n.parsed_objects
           /\ selected_path' = n.selected_path
           /\ collapsed_nodes' = n.collapsed_nodes
           /\ show_help' = n.show_help
           /\ tree_scroll' = n.tree_scroll
           /\ show_hex_modal' = n.show_hex_modal
           /\ copy_hex_to_clipboard' = n.copy_hex_to_clipboard
           /\ panicked' = n.panicked
    /\ UNCHANGED <<overflow_checks, parservars>>

KeyText == \E c \in TextChars : Press(CharKey(c))

KeyQuestion == Press(CharKey("?"))

KeyCtrlU == Press(CtrlKey("u"))

KeyCtrlR == Press(CtrlKey("r"))

KeyCtrlC == Press(CtrlKey("c"))

KeyEsc == Press(PlainKey("Esc"))

KeyTab == Press(PlainKey("Tab"))

KeyBackspace == Press(PlainKey("Backspace"))

KeyEnter == Press(PlainKey("Enter"))

KeyQ == Press(CharKey("q"))

KeyI == Press(CharKey("i"))

KeyH == Press(CharKey("h"))

KeyL == Press(CharKey("l"))

KeyJ == Press(CharKey("j"))

KeyK == Press(CharKey("k"))

KeyX == Press(CharKey("x"))

KeyUnbound == \E key \in {CharKey("d"), CharKey("a"), PlainKey("Other")} : Press(key)

\* the fields of App::new
InitApp ==
    /\ mode = App_new.mode
    /\ input_buffer = App_new.input_buffer
    /\ should_quit = App_new.should_quit
    /\ buffer = App_new.buffer
    /\ parsed_objects = App_new.parsed_objects
    /\ selected_path = App_new.selected_path
    /\ collapsed_nodes = App_new.collapsed_nodes
    /\ show_help = App_new.show_help
    /\ tree_scroll = App_new.tree_scroll
    /\ show_hex_modal = App_new.show_hex_modal
    /\ copy_hex_to_clipboard = App_new.copy_hex_to_clipboard
    /\ panicked = App_new.panicked

Init ==
    /\ InitApp
    /\ overflow_checks \in BOOLEAN
    /\ input = <<>>
    /\ op = "idle"
    /\ out = <<>>

Next ==
    \/ KeyText
    \/ KeyQuestion
    \/ KeyCtrlU
    \/ KeyCtrlR
    \/ KeyCtrlC
    \/ KeyEsc
    \/ KeyTab
    \/ KeyBackspace
    \/ KeyEnter
    \/ KeyQ
    \/ KeyI
    \/ KeyH
    \/ KeyL
    \/ KeyJ
    \/ KeyK
    \/ KeyX
    \/ KeyUnbound

Spec == Init /\ [][Next]_vars

(***************************************************************************)
(* A DerParser under test: a fresh parser over one buffer, one operation.  *)
(***************************************************************************)
InitParser ==
    /\ InitApp
    /\ overflow_checks \in BOOLEAN
    /\ input \in Buffers
    /\ op = "new"
    /\ out = <<>>

Apply(name, result) ==
    /\ op = "new"
    /\ op' = name
    /\ out' = result
    /\ UNCHANGED <<appvars, overflow_checks, input>>

DoReadTag == Apply("read_tag", read_tag(input, 0))

DoReadLength == Apply("read_length", read_length(input, 0, overflow_checks))

DoParseTlv == Apply("parse_tlv", parse_tlv(input, 0, overflow_checks))

DoParseAll == Apply("parse_all", parse_all(input, 0, overflow_checks))

NextParser ==
    \/ DoReadTag
    \/ DoReadLength
    \/ DoParseTlv
    \/ DoParseAll

SpecParser == InitParser /\ [][NextParser]_vars

(***************************************************************************)
(* The interface from a decoded tree on: one of TreeTexts has been typed   *)
(* and decoded with Ctrl-R; the keys are those of the tree view, Tab, and  *)
(* Ctrl-R to decode the same text again.                                   *)
(***************************************************************************)
InitTree ==
    /\ overflow_checks \in BOOLEAN
    /\ input = <<>>
    /\ op = "idle"
    /\ out = <<>>
    /\ \E t \in TreeTexts :
           \E n \in {ctrl_r([App_new EXCEPT !.input_buffer = t], overflow_checks)} :
               /\ mode = n.mode
               /\ input_buffer = n.input_buffer
               /\ should_quit = n.should_quit
               /\ buffer = n.buffer
               /\ parsed_objects = n.parsed_objects
               /\ selected_path = n.selected_path
               /\ collapsed_nodes = n.collapsed_nodes
               /\ show_help = n.show_help
               /\ tree_scroll = n.tree_scroll
               /\ show_hex_modal = n.show_hex_modal
               /\ copy_hex_to_clipboard = n.copy_hex_to_clipboard
               /\ panicked = n.panicked

NextTree ==
    \/ KeyJ
    \/ KeyK
    \/ KeyH
    \/ KeyL
    \/ KeyTab
    \/ KeyCtrlR

SpecTree == InitTree /\ [][NextTree]_vars

(***************************************************************************)
(* The cursor primitives: any sequence of peek, read_byte and read_n calls *)
(* on one DerParser.  out holds the parser's position and what the last    *)
(* call returned: kind "Some" with the bytes, "None", or "Panic"; before   *)
(* is the position the call started from, n the count passed to read_n.    *)
(***************************************************************************)
CursorBuffers == SeqsUpTo({1, 2}, MaxCursorLen)

\* the counts passed to read_n: 0 to MaxCursorLen + 1, and usize::MAX
ReadCounts ==
    {Shl8Or(ZeroWord, k) : k \in 0..(MaxCursorLen + 1)}
        \cup {[i \in 1..UsizeBytes |-> 255]}

InitCursor ==
    /\ InitApp
    /\ overflow_checks \in BOOLEAN
    /\ input \in CursorBuffers
    /\ op = "cursor"
    /\ out = [kind |-> "New", bytes |-> <<>>, position |-> 0, before |-> 0, n |-> ZeroWord]

\* a call on the parser unless it has panicked
Call(name, kind, bytes, position, n) ==
    /\ out.kind # "Panic"
    /\ op' = name
    /\ out' = [kind |-> kind, bytes |-> bytes, position |-> position,
               before |-> out.position, n |-> n]
    /\ UNCHANGED <<appvars, overflow_checks, input>>

CallPeek ==
    \E r \in {peek(input, out.position)} :
        Call("peek", IF r.some THEN "Some" ELSE "None",
             IF r.some THEN <<r.byte>> ELSE <<>>, r.position, ZeroWord)

CallReadByte ==
    \E r \in {read_byte(input, out.position)} :
        Call("read_byte", IF r.some THEN "Some" ELSE "None",
             IF r.some THEN <<r.byte>> ELSE <<>>, r.position, ZeroWord)

CallReadN ==
    \E n \in ReadCounts :
        \E r \in {read_n(input, out.position, n, overflow_checks)} :
            Call("read_n", r.kind, r.slice, r.position, n)

NextCursor ==
    \/ CallPeek
    \/ CallReadByte
    \/ CallReadN

SpecCursor == InitCursor /\ [][NextCursor]_vars

(***************************************************************************)
(* The hex breakdown against the decoder: the tag or the length of an      *)
(* object is synthesized to bytes and a fresh DerParser reads them back.   *)
(***************************************************************************)
\* u32 tag numbers as base-128 digits: 0, 1, 30, 31, 127, 128, 2^14 - 1,
\* 2^14, 2^21 - 1, 2^21, 2^28 - 1, 2^28, 2^32 - 1
SampleNumbers ==
    { <<0, 0, 0, 0, 0>>, <<0, 0, 0, 0, 1>>, <<0, 0, 0, 0, 30>>, <<0, 0, 0, 0, 31>>,
      <<0, 0, 0, 0, 127>>, <<0, 0, 0, 1, 0>>, <<0, 0, 0, 127, 127>>, <<0, 0, 1, 0, 0>>,
      <<0, 0, 127, 127, 127>>, <<0, 1, 0, 0, 0>>, <<0, 127, 127, 127, 127>>,
      <<1, 0, 0, 0, 0>>, <<15, 127, 127, 127, 127>> }

SampleTags ==
    [class : {"Universal", "Application", "ContextSpecific", "Private"},
     constructed : BOOLEAN,
     number : SampleNumbers]

SampleLengths ==
    {0, 1, 127, 128, 255, 256, 65535, 65536, 16777215, 16777216, 2147483647}

InitSynth ==
    /\ InitApp
    /\ overflow_checks \in BOOLEAN
    /\ input = <<>>
    /\ op = "field"
    /\ out \in {[tag |-> t] : t \in SampleTags} \cup {[length |-> n] : n \in SampleLengths}

\* the tag bytes of the breakdown, read back by read_tag
DoSynthTag ==
    /\ op = "field"
    /\ "tag" \in DOMAIN out
    /\ input' = SynthTagBytes(out.tag)
    /\ op' = "tag_bytes"
    /\ out' = [tag |-> out.tag, read |-> read_tag(SynthTagBytes(out.tag), 0)]
    /\ UNCHANGED <<appvars, overflow_checks>>

\* the length bytes of the breakdown, read back by read_length
DoSynthLength ==
    /\ op = "field"
    /\ "length" \in DOMAIN out
    /\ input' = SynthLengthBytes(out.length)
    /\ op' = "length_bytes"
    /\ out' = [length |-> out.length,
               read |-> read_length(SynthLengthBytes(out.length), 0, overflow_checks)]
    /\ UNCHANGED <<appvars, overflow_checks>>

NextSynth ==
    \/ DoSynthTag
    \/ DoSynthLength

SpecSynth == InitSynth /\ [][NextSynth]_vars

(***************************************************************************)
(* Properties of the interface (specification Spec)                        *)
(***************************************************************************)
\* the Ctrl-R command is handled as a decode: Input mode, no help overlay
DecodeStep == KeyCtrlR /\ mode = "Input" /\ ~show_help

\* what the decode of the typed text yields: "NoBytes" (neither hex nor
\* base64), or the kind of parse_all's result
DecodeOutcome ==
    IF try_decode_input(input_buffer).ok
    THEN parse_all(try_decode_input(input_buffer).bytes, 0, overflow_checks).kind
    ELSE "NoBytes"

\* C1: once a tree has been decoded, selected_path resolved against the
\* current tree (top-level object at path[0], then children at path[1..])
\* always denotes an existing node.
C1_SelectedPathNeverDangling ==
    selected_path # <<>> => get_object_by_path(parsed_objects, selected_path).some

\* C2: a failed decode (the text is neither hex nor base64, or parse_all
\* returns an error) leaves parsed_objects, selected_path, collapsed_nodes
\* and mode exactly as they were.
C2_FailedDecodeKeepsState ==
    [][(DecodeStep /\ DecodeOutcome \in {"NoBytes", "Err"})
          => UNCHANGED <<parsed_objects, selected_path, collapsed_nodes, mode>>]_vars

\* C2 witness: the last decodable text did not parse (buffer holds its
\* bytes), the interface is still in Input mode, and the tree, a selection
\* below the top level and a collapsed node of the earlier decode are there.
C2_Witness ==
    /\ mode = "Input"
    /\ parse_all(buffer, 0, overflow_checks).kind = "Err"
    /\ parsed_objects # <<>>
    /\ Len(selected_path) > 1
    /\ collapsed_nodes # {}

\* C3: immediately after a successful decode, selected_path is the path of
\* the first top-level object and collapsed_nodes is empty.
C3_DecodeResetsSelectionAndCollapse ==
    [][(DecodeStep /\ DecodeOutcome = "Ok")
          => (selected_path' = <<0>> /\ collapsed_nodes' = {})]_vars

(***************************************************************************)
(* Properties of the decoder (specification SpecParser)                    *)
(***************************************************************************)
Parsed == op \in {"parse_tlv", "parse_all"}

\* C4: parse_all returns a list of objects or one error for every buffer;
\* no input makes it abort.
C4_ParseAllReturns ==
    op = "parse_all" => out.kind \in {"Ok", "Err"}

\* every Constructed object of the list, at any depth, has children whose
\* synthesized tag, length and value bytes concatenate to its value slice
RECURSIVE ChildrenReencode(_)
ChildrenReencode(objs) ==
    \A i \in 1..Len(objs) :
        objs[i].value.kind = "Constructed"
            => /\ get_tag_length_value_bytes(OwnedObject_from(objs[i])).value_bytes
                      = objs[i].raw
               /\ ChildrenReencode(objs[i].value.children)

\* C6: for every Constructed object of a successful decode, the children's
\* full encodings as synthesized by get_tag_length_value_bytes, concatenated
\* in order, are exactly the declared-length value slice it was decoded from.
C6_ChildrenReencodeToSlice ==
    (op = "parse_all" /\ out.kind = "Ok") => ChildrenReencode(out.objs)

\* C7: a length whose first byte is 0x80 is never read as length 0:
\* read_length returns no value, and a decode that meets it at any depth
\* fails with InvalidLength.
C7_IndefiniteLengthRejected ==
    /\ (op = "read_length" /\ MeetsIndefinite(input, 0)) => out.kind = "None"
    /\ (Parsed /\ "indefinite" \in out.ev)
           => (out.kind = "Err" /\ out.err = "InvalidLength")

\* C7 witness: parse_all has met 0x80 as the length of a child of a
\* constructed object whose own length is definite.
C7_Witness ==
    /\ op = "parse_all"
    /\ "indefinite" \in out.ev
    /\ Len(input) >= 4
    /\ input[1] = 48
    /\ input[2] # 128

\* C8: whenever tag and length are read and the declared length is larger
\* than what remains of the slice, the decode fails with UnexpectedEOF.
C8_OverrunIsUnexpectedEOF ==
    (Parsed /\ "overrun" \in out.ev)
        => (out.kind = "Err" /\ out.err = "UnexpectedEOF")

\* the base-128 digits of a long-form tag number: the low 7 bits of the
\* bytes from index i up to and including the first with a clear high bit
RECURSIVE TagDigits(_, _)
TagDigits(bytes, i) ==
    IF i > Len(bytes) THEN <<>>
    ELSE IF bytes[i] < 128 THEN <<bytes[i]>>
    ELSE <<bytes[i] % 128>> \o TagDigits(bytes, i + 1)

\* the buffer starts with a complete long-form tag whose number is 2^32 or more
TagNumberExceedsU32 ==
    /\ input # <<>>
    /\ input[1] % 32 = 31
    /\ \E i \in 2..Len(input) : input[i] < 128
    /\ LET sig == StripLeadingZeros(TagDigits(input, 2))
       IN  Len(sig) > 5 \/ (Len(sig) = 5 /\ sig[1] >= 16)

\* C9: a long-form tag whose number exceeds the u32 range is an explicit
\* decode error; read_tag never returns a wrapped or truncated number.
C9_WideTagNumberIsError ==
    (op = "read_tag" /\ TagNumberExceedsU32) => ~out.some

\* the buffer starts with a well-formed length field: short form, or long
\* form 0x80|k with 1 <= k <= 127 and k following bytes
LengthFieldBytes ==
    IF input = <<>> THEN 0
    ELSE IF input[1] < 128 THEN 1
    ELSE IF input[1] > 128 /\ Len(input) >= 1 + (input[1] - 128) THEN 1 + (input[1] - 128)
    ELSE 0

\* C10: for every well-formed length field read_length returns its value:
\* the first byte itself in the short form, the big-endian integer of the k
\* following bytes in the long form (compared without leading zero bytes),
\* having consumed exactly the field.
C10_ReadLengthIsReference ==
    (op = "read_length" /\ LengthFieldBytes > 0)
        => /\ out.kind = "Some"
           /\ out.position = LengthFieldBytes
           /\ StripLeadingZeros(out.length) = StripLeadingZeros(SubSeq(input, IF input[1] < 128 THEN 1 ELSE 2,
                                                 LengthFieldBytes))

\* the buffer starts with a complete tag: one byte, or a long-form tag
\* closed by a byte with a clear high bit
TagComplete ==
    /\ input # <<>>
    /\ input[1] % 32 = 31 => \E i \in 2..Len(input) : input[i] < 128

\* the reference reading of the tag at the start of the buffer
RefTagClass ==
    CASE input[1] < 64 -> "Universal"
      [] input[1] >= 64 /\ input[1] < 128 -> "Application"
      [] input[1] >= 128 /\ input[1] < 192 -> "ContextSpecific"
      [] input[1] >= 192 -> "Private"

RefTagConstructed == input[1] % 64 >= 32

RefTagDigits ==
    IF input[1] % 32 = 31 THEN TagDigits(input, 2) ELSE <<input[1] % 32>>

RefTagBytes ==
    IF input[1] % 32 = 31 THEN 1 + Len(TagDigits(input, 2)) ELSE 1

\* C11: for every complete tag whose number fits in 32 bits read_tag returns
\* the reference tag: class from the top two bits, constructed from bit 0x20,
\* number from the low five bits or, when they are all set, the big-endian
\* base-128 value of the continuation bytes; it consumes exactly the tag.
C11_ReadTagIsReference ==
    (op = "read_tag" /\ TagComplete /\ ~TagNumberExceedsU32)
        => /\ out.some
           /\ out.position = RefTagBytes
           /\ out.tag.class = RefTagClass
           /\ out.tag.constructed = RefTagConstructed
           /\ StripLeadingZeros(out.tag.number) = StripLeadingZeros(RefTagDigits)

\* C11 witness: read_tag has read a long-form tag of class Private whose
\* number needs all 32 bits.
C11_Witness ==
    /\ op = "read_tag"
    /\ TagComplete
    /\ ~TagNumberExceedsU32
    /\ input[1] >= 192
    /\ input[1] % 32 = 31
    /\ Len(StripLeadingZeros(out.tag.number)) = 5

(***************************************************************************)
(* The reference reading of a buffer as a sequence of TLVs, by byte index  *)
(* (1-based) and unbounded arithmetic.                                     *)
(***************************************************************************)
\* index of the last byte of the tag that starts at index i; 0 when the
\* buffer ends inside the tag
RefTagLast(b, i) ==
    IF i > Len(b) THEN 0
    ELSE IF b[i] % 32 # 31 THEN i
    ELSE LET ends == {j \in (i + 1)..Len(b) : b[j] < 128}
         IN  IF ends = {} THEN 0 ELSE CHOOSE j \in ends : \A k \in ends : j <= k

\* index of the last byte of the length field that starts at index i; 0
\* when the byte is missing, is 0x80, or its following bytes are missing
RefLenLast(b, i) ==
    IF i > Len(b) THEN 0
    ELSE IF b[i] < 128 THEN i
    ELSE IF b[i] = 128 THEN 0
    ELSE IF i + (b[i] - 128) <= Len(b) THEN i + (b[i] - 128)
    ELSE 0

RECURSIVE BigEndian(_)
BigEndian(bytes) ==
    IF bytes = <<>> THEN 0
    ELSE BigEndian(SubSeq(bytes, 1, Len(bytes) - 1)) * 256 + bytes[Len(bytes)]

\* the value of the length field that starts at index i; -1 stands for any
\* value of more than three significant bytes (larger than every buffer)
RefLenValue(b, i) ==
    IF b[i] < 128 THEN b[i]
    ELSE LET sig == StripLeadingZeros(SubSeq(b, i + 1, RefLenLast(b, i)))
         IN  IF Len(sig) > 3 THEN -1 ELSE BigEndian(sig)

\* the TLV that starts at index i: the stage at which it is cut short
\* ("tag", "length", "value") or "ok" with the bounds of its value
RefTLV(b, i) ==
    LET t == RefTagLast(b, i)
        l == RefLenLast(b, t + 1)
        n == RefLenValue(b, t + 1)
        cut(stage) == [stage |-> stage, constructed |-> FALSE, vfirst |-> 0, vlast |-> 0]
    IN  IF t = 0 THEN cut("tag")
        ELSE IF l = 0 THEN cut("length")
        ELSE IF n < 0 \/ l + n > Len(b) THEN cut("value")
        ELSE [stage |-> "ok", constructed |-> b[i] % 64 >= 32,
              vfirst |-> l + 1, vlast |-> l + n]

\* the first failure in input order of the TLV sequence from index i on,
\* constructed values included; "none" when the sequence is well-formed
RECURSIVE RefFailure(_, _)
RefFailure(b, i) ==
    IF i > Len(b) THEN "none"
    ELSE LET r == RefTLV(b, i)
             inner == IF r.constructed
                      THEN RefFailure(SubSeq(b, r.vfirst, r.vlast), 1)
                      ELSE "none"
         IN  CASE r.stage = "tag" -> "InvalidTag"
               [] r.stage = "length" -> "InvalidLength"
               [] r.stage = "value" -> "UnexpectedEOF"
               [] r.stage = "ok" ->
                      IF inner # "none" THEN inner ELSE RefFailure(b, r.vlast + 1)

\* the objects of a well-formed TLV sequence from index i on
RECURSIVE RefObjects(_, _)
RefObjects(b, i) ==
    IF i > Len(b) THEN <<>>
    ELSE LET r == RefTLV(b, i)
             slice == SubSeq(b, r.vfirst, r.vlast)
         IN  <<[constructed |-> r.constructed,
                raw |-> slice,
                children |-> IF r.constructed THEN RefObjects(slice, 1) ELSE <<>>]>>
             \o RefObjects(b, r.vlast + 1)

\* the decoded objects are the reference objects, in order and at every depth
RECURSIVE SameObjects(_, _)
SameObjects(objs, refs) ==
    /\ Len(objs) = Len(refs)
    /\ \A i \in 1..Len(objs) :
           /\ objs[i].tag.constructed = refs[i].constructed
           /\ IF refs[i].constructed
              THEN /\ objs[i].value.kind = "Constructed"
                   /\ SameObjects(objs[i].value.children, refs[i].children)
              ELSE /\ objs[i].value.kind = "Primitive"
                   /\ objs[i].value.bytes = refs[i].raw

\* C12: on a concatenation of n well-formed TLVs parse_all succeeds with
\* exactly the n objects in input order, each primitive object carrying its
\* declared-length value bytes verbatim, and the whole input is consumed.
C12_WellFormedSequenceDecodes ==
    (op = "parse_all" /\ RefFailure(input, 1) = "none")
        => /\ out.kind = "Ok"
           /\ out.position = Len(input)
           /\ SameObjects(out.objs, RefObjects(input, 1))

\* C12 witness: parse_all has decoded a concatenation of three TLVs.
C12_Witness ==
    /\ op = "parse_all"
    /\ RefFailure(input, 1) = "none"
    /\ Len(RefObjects(input, 1)) = 3
    /\ Len(out.objs) = 3

\* the buffer starts with a constructed TLV whose tag and length are complete
ConstructedHead ==
    /\ RefTagLast(input, 1) # 0
    /\ input[1] % 64 >= 32
    /\ RefLenLast(input, RefTagLast(input, 1) + 1) # 0

\* the declared-length value slice of the TLV at the start of the buffer
HeadSlice == SubSeq(input, RefTLV(input, 1).vfirst, RefTLV(input, 1).vlast)

\* C13: the children of a constructed TLV are exactly the objects of its
\* declared-length value slice read in full as a TLV sequence; when that
\* slice is not a well-formed TLV sequence (a child cut short by the end of
\* the slice, whatever follows in the outer buffer) the decode fails.
C13_ChildrenFromSliceOnly ==
    (op = "parse_tlv" /\ ConstructedHead /\ RefTLV(input, 1).stage = "ok")
        => IF RefFailure(HeadSlice, 1) = "none"
           THEN /\ out.kind = "Ok"
                /\ out.position = RefTLV(input, 1).vlast
                /\ SameObjects(out.obj.value.children, RefObjects(HeadSlice, 1))
           ELSE out.kind = "Err"

\* the outcome of the first parse_tlv, in input order from position on, that
\* does not return an object: its error, "panic", or "none" when all do
RECURSIVE FirstTlvError(_, _, _)
FirstTlvError(b, position, checks) ==
    IF position >= Len(b) THEN "none"
    ELSE LET r == parse_tlv(b, position, checks)
         IN  IF r.kind = "Err" THEN r.err
             ELSE IF r.kind = "Panic" THEN "panic"
             ELSE FirstTlvError(b, r.position, checks)

\* C14: the first failure met in input order is the single result of the
\* decode: parse_all returns the error of the first parse_tlv that fails
\* and no list of the objects decoded before it, and parse_tlv on a
\* constructed TLV returns the error of its value slice unchanged.
C14_FirstErrorWins ==
    /\ (op = "parse_all"
           /\ FirstTlvError(input, 0, overflow_checks) \notin {"none", "panic"})
           => /\ out.kind = "Err"
              /\ out.err = FirstTlvError(input, 0, overflow_checks)
              /\ out.objs = <<>>
    /\ (op = "parse_all" /\ out.kind = "Err")
           => out.err = FirstTlvError(input, 0, overflow_checks)
    /\ (op = "parse_tlv" /\ ConstructedHead /\ RefTLV(input, 1).stage = "ok"
           /\ parse_all(HeadSlice, 0, overflow_checks).kind = "Err")
           => /\ out.kind = "Err"
              /\ out.err = parse_all(HeadSlice, 0, overflow_checks).err
              /\ out.obj = <<>>

\* C14 witness: parse_all has decoded a first object and then failed inside
\* the value of a second, constructed one.
C14_Witness ==
    /\ op = "parse_all"
    /\ out.kind = "Err"
    /\ RefTLV(input, 1).stage = "ok"
    /\ RefTLV(input, RefTLV(input, 1).vlast + 1).stage = "ok"
    /\ RefTLV(input, RefTLV(input, 1).vlast + 1).constructed
    /\ out.err = "UnexpectedEOF"

\* the first failure of the single TLV at the start of the buffer
RefTlvFailure(b) ==
    LET r == RefTLV(b, 1)
    IN  CASE r.stage = "tag" -> "InvalidTag"
          [] r.stage = "length" -> "InvalidLength"
          [] r.stage = "value" -> "UnexpectedEOF"
          [] r.stage = "ok" ->
                 IF r.constructed
                 THEN RefFailure(SubSeq(b, r.vfirst, r.vlast), 1)
                 ELSE "none"

\* the failure the operation applied to the buffer is to report
ExpectedFailure ==
    IF op = "parse_all" THEN RefFailure(input, 1) ELSE RefTlvFailure(input)

\* C15: a decode fails exactly when the buffer is cut short at some stage,
\* and reports the kind of that stage: InvalidTag inside a tag, InvalidLength
\* for a missing, incomplete or indefinite length, UnexpectedEOF for a value
\* shorter than declared; no other kind is ever returned.
C15_ErrorKindIsStage ==
    Parsed
        => /\ ExpectedFailure # "none"
                  => (out.kind = "Err" /\ out.err = ExpectedFailure)
           /\ out.kind = "Err"
                  => /\ out.err = ExpectedFailure
                     /\ out.err \in {"InvalidTag", "InvalidLength", "UnexpectedEOF"}

(***************************************************************************)
(* Properties of the navigation (specification SpecTree)                   *)
(***************************************************************************)
\* the node a path denotes: the top-level object at path[0], then the
\* children at path[1..]
RECURSIVE NodeAt(_, _)
NodeAt(objects, path) ==
    IF path = <<>> THEN NoObject
    ELSE IF Head(path) >= Len(objects) THEN NoObject
    ELSE IF Len(path) = 1 THEN SomeObject(objects[Head(path) + 1])
    ELSE IF objects[Head(path) + 1].value.kind = "Constructed"
         THEN NodeAt(objects[Head(path) + 1].value.children, Tail(path))
         ELSE NoObject

\* the node at path is Constructed and has at least one child
HasChildren(objects, path) ==
    /\ NodeAt(objects, path).some
    /\ NodeAt(objects, path).obj.value.kind = "Constructed"
    /\ NodeAt(objects, path).obj.value.children # <<>>

\* the path with its last index raised by one
Bump(path) == Append(SubSeq(path, 1, Len(path) - 1), path[Len(path)] + 1)

\* the next sibling at the deepest level, from path upward, that has one;
\* the empty path when no level has a further sibling
RECURSIVE RefNextSibling(_, _)
RefNextSibling(objects, path) ==
    IF path = <<>> THEN <<>>
    ELSE IF NodeAt(objects, Bump(path)).some THEN Bump(path)
    ELSE RefNextSibling(objects, SubSeq(path, 1, Len(path) - 1))

\* where a move down that does not enter the selected node ends
RefAdvance(objects, path) ==
    IF RefNextSibling(objects, path) = <<>> THEN path
    ELSE RefNextSibling(objects, path)

\* the deepest visible last descendant, from path downward
RECURSIVE RefDeepestLast(_, _, _)
RefDeepestLast(objects, path, collapsed) ==
    IF HasChildren(objects, path) /\ path \notin collapsed
    THEN RefDeepestLast(objects,
                        Append(path, Len(NodeAt(objects, path).obj.value.children) - 1),
                        collapsed)
    ELSE path

\* the tree view takes the next key: View mode, no help overlay, the event
\* loop running
TreeViewHasKeys == mode = "View" /\ ~show_help /\ ~should_quit /\ ~panicked

\* the selection the j key (move_selection_down) leaves from this state
AfterKeyJ == handle_input(App, CharKey("j"), overflow_checks).selected_path

\* the selection the k key (move_selection_up) leaves from this state
AfterKeyK == handle_input(App, CharKey("k"), overflow_checks).selected_path

\* C16: a move down from a Constructed node with at least one child whose
\* path is not collapsed selects its child 0, under any top-level object.
C16_DescendsIntoFirstChild ==
    (TreeViewHasKeys /\ HasChildren(parsed_objects, selected_path)
         /\ selected_path \notin collapsed_nodes)
        => AfterKeyJ = Append(selected_path, 0)

\* C17: a move down from a node that cannot be entered (Primitive, empty or
\* collapsed) selects the next sibling at the current depth, else the next
\* sibling of the nearest ancestor that has one, else leaves the selection.
C17_AdvancesToNextSibling ==
    (TreeViewHasKeys /\ NodeAt(parsed_objects, selected_path).some
         /\ ~(HasChildren(parsed_objects, selected_path)
                  /\ selected_path \notin collapsed_nodes))
        => AfterKeyJ = RefAdvance(parsed_objects, selected_path)

\* C18: a move down from a collapsed constructed node never enters it: it
\* ends where it would if the node had no children; a move down enters a
\* node only if its path is not in the collapse set.
C18_CollapsedNodeNotEntered ==
    TreeViewHasKeys
        => /\ (HasChildren(parsed_objects, selected_path)
                   /\ selected_path \in collapsed_nodes)
                  => AfterKeyJ = RefAdvance(parsed_objects, selected_path)
           /\ AfterKeyJ = Append(selected_path, 0)
                  => selected_path \notin collapsed_nodes

\* C18 witness: the selected node is a collapsed SEQUENCE with a child and
\* a next sibling, and the move down from it selects that sibling.
C18_Witness ==
    /\ TreeViewHasKeys
    /\ HasChildren(parsed_objects, selected_path)
    /\ selected_path \in collapsed_nodes
    /\ NodeAt(parsed_objects, Bump(selected_path)).some
    /\ AfterKeyJ = Bump(selected_path)

\* C19: a move up from a node whose index among its siblings is above 0
\* selects the deepest visible last descendant of the previous sibling, at
\* every depth and under every top-level object.
C19_UpToPreviousDeepestLast ==
    (TreeViewHasKeys /\ NodeAt(parsed_objects, selected_path).some
         /\ selected_path[Len(selected_path)] > 0)
        => AfterKeyK =
               RefDeepestLast(parsed_objects,
                              Append(SubSeq(selected_path, 1, Len(selected_path) - 1),
                                     selected_path[Len(selected_path)] - 1),
                              collapsed_nodes)

\* C20: a move up from a node whose index is 0 selects its parent; from a
\* top-level node of index 0 the selection is unchanged.
C20_UpToParent ==
    (TreeViewHasKeys /\ selected_path # <<>> /\ selected_path[Len(selected_path)] = 0)
        => AfterKeyK = IF Len(selected_path) > 1
                       THEN SubSeq(selected_path, 1, Len(selected_path) - 1)
                       ELSE selected_path

\* C20 witness: a first child below the top level is selected in the tree
\* view and the move up from it selects its parent.
C20_Witness ==
    /\ TreeViewHasKeys
    /\ Len(selected_path) > 1
    /\ selected_path[Len(selected_path)] = 0
    /\ NodeAt(parsed_objects, selected_path).some
    /\ AfterKeyK = SubSeq(selected_path, 1, Len(selected_path) - 1)

\* the application the h key (toggle_collapse) leaves from this state
AfterKeyH == handle_input(App, CharKey("h"), overflow_checks)

\* the node at path is Constructed
IsConstructedAt(objects, path) ==
    /\ NodeAt(objects, path).some
    /\ NodeAt(objects, path).obj.value.kind = "Constructed"

\* C21: a toggle on a Constructed selected node removes its path from
\* collapsed_nodes if it is there and inserts it otherwise; on a Primitive
\* selected node it changes nothing; the selection and the tree are kept.
C21_ToggleFlipsConstructedOnly ==
    (TreeViewHasKeys /\ NodeAt(parsed_objects, selected_path).some)
        => /\ AfterKeyH.selected_path = selected_path
           /\ AfterKeyH.parsed_objects = parsed_objects
           /\ AfterKeyH.collapsed_nodes =
                  IF IsConstructedAt(parsed_objects, selected_path)
                  THEN IF selected_path \in collapsed_nodes
                       THEN collapsed_nodes \ {selected_path}
                       ELSE collapsed_nodes \cup {selected_path}
                  ELSE collapsed_nodes

\* C22: every path in collapsed_nodes denotes a Constructed node of the
\* current tree.
C22_CollapsedPathsAreConstructed ==
    \A p \in collapsed_nodes : IsConstructedAt(parsed_objects, p)

\* C23: the two resolvers return the node the path denotes (the top-level
\* object at path[0], then the children at path[1..], nothing when an index
\* is out of range or a Primitive node is indexed into) and so agree, for
\* the selected path and for the empty path.
C23_ResolversAgree ==
    \A p \in {selected_path, <<>>} :
        /\ get_object_by_path(parsed_objects, p) = NodeAt(parsed_objects, p)
        /\ get_selected_object(parsed_objects, p) = NodeAt(parsed_objects, p)

\* the flattened collapse-aware list of the current tree, as paths
VisibleItems == tui_list_items(parsed_objects, selected_path, collapsed_nodes).items

\* the 0-based position of the selected path in the list; -1 when it is
\* not an item
SelectedPos ==
    IF \E i \in 1..Len(VisibleItems) : VisibleItems[i] = selected_path
    THEN (CHOOSE i \in 1..Len(VisibleItems) : VisibleItems[i] = selected_path) - 1
    ELSE -1

Dist(a, b) == IF a >= b THEN a - b ELSE b - a

\* C24: for every height h >= 1, update_tree_scroll(h) leaves the selected
\* node's position within [tree_scroll, tree_scroll + h), and no offset with
\* that property is nearer to the offset before the call.
C24_ScrollKeepsSelectionInWindow ==
    SelectedPos >= 0
        => \A h \in 1..MaxHeight :
               LET after == update_tree_scroll(parsed_objects, selected_path,
                                               collapsed_nodes, tree_scroll, h)
               IN  /\ after <= SelectedPos
                   /\ SelectedPos < after + h
                   /\ \A s \in 0..SelectedPos :
                          SelectedPos < s + h
                              => Dist(after, tree_scroll) <= Dist(s, tree_scroll)

\* C24 witness: the list is longer than the viewport of the handler, the
\* offset has been moved off 0 and the selected item is below it.
C24_Witness ==
    /\ Len(VisibleItems) > area_height
    /\ tree_scroll > 0
    /\ SelectedPos > tree_scroll

\* the application the j key and the k key leave from this state
AppAfterKeyJ == handle_input(App, CharKey("j"), overflow_checks)

AppAfterKeyK == handle_input(App, CharKey("k"), overflow_checks)

\* the offset is at most max(0, N - area_height) for the N items of the list
ScrollClamped(app) ==
    LET N == Len(tui_list_items(app.parsed_objects, app.selected_path,
                                app.collapsed_nodes).items)
    IN  app.tree_scroll <= (IF N > area_height THEN N - area_height ELSE 0)

\* C25: after update_tree_scroll returns (at the end of every move) the
\* window does not extend past the end of the flattened list: tree_scroll
\* is at most max(0, N - h), and 0 when the list is not longer than the
\* viewport.
C25_ScrollClampedToList ==
    TreeViewHasKeys => (ScrollClamped(AppAfterKeyJ) /\ ScrollClamped(AppAfterKeyK))

(***************************************************************************)
(* Properties of the hex breakdown (specification SpecSynth)               *)
(***************************************************************************)
\* C26: read_tag applied to the synthesized tag bytes returns the tag they
\* were synthesized from and consumes all of them, and read_length applied
\* to the synthesized length bytes returns the length and consumes all of
\* them.
C26_SynthesizedBytesReadBack ==
    /\ op = "tag_bytes"
           => /\ out.read.some
              /\ out.read.tag = out.tag
              /\ out.read.position = Len(input)
    /\ op = "length_bytes"
           => /\ out.read.kind = "Some"
              /\ StripLeadingZeros(out.read.length) = LenBytes(out.length)
              /\ out.read.position = Len(input)

\* C26 witness: a long-form tag of five continuation digits has been
\* synthesized and read back.
C26_Witness ==
    /\ op = "tag_bytes"
    /\ Len(input) = 6
    /\ out.read.some

(***************************************************************************)
(* Properties of the key bindings (specification Spec)                     *)
(***************************************************************************)
\* the key events probed in every state: the characters of the texts and
\* of the bindings, with and without CONTROL, and the other key codes
ProbeKeys ==
    {CharKey(c) : c \in TextChars \cup {"?", "q", "i", "h", "l", "j", "k", "x",
                                        "d", "a", "r", "u", "c"}}
        \cup {CtrlKey(c) : c \in {"u", "r", "c", "i", "q"}}
        \cup {PlainKey(code) : code \in {"Esc", "Tab", "Backspace", "Enter", "Other"}}

\* the mode the documented bindings give after the key, with no overlay:
\* Tab or Esc leave Input, a Ctrl-R whose decode succeeds leaves Input,
\* i or Tab leave View, every other key keeps the mode
ExpectedMode(key) ==
    IF mode = "Input"
    THEN IF key.code \in {"Tab", "Esc"} THEN "View"
         ELSE IF IsChar(key, "r") /\ key.ctrl /\ DecodeOutcome = "Ok" THEN "View"
         ELSE "Input"
    ELSE IF key.code = "Tab" \/ IsChar(key, "i") THEN "Input"
         ELSE "View"

\* what the rule asks of the application a key leaves
ModeRule(key, after) ==
    IF show_help
    THEN after = [App EXCEPT !.show_help = FALSE]
    ELSE after.mode = ExpectedMode(key)

\* C27: with no help overlay the mode after a key is the one the bindings
\* give and no other key changes it; with the overlay shown a key closes
\* the overlay and changes nothing else.
C27_ModeFollowsBindings ==
    \A key \in ProbeKeys : ModeRule(key, handle_input(App, key, overflow_checks))

\* C27 witness: the help overlay is shown over a decoded tree in View mode.
C27_Witness ==
    /\ show_help
    /\ mode = "View"
    /\ parsed_objects # <<>>

(***************************************************************************)
(* Properties of the selection against the flattened list (SpecTree)       *)
(***************************************************************************)
\* the 0-based position of a path in the flattened list; -1 when it is not
\* an item
PosOf(path) ==
    IF \E i \in 1..Len(VisibleItems) : VisibleItems[i] = path
    THEN (CHOOSE i \in 1..Len(VisibleItems) : VisibleItems[i] = path) - 1
    ELSE -1

\* C28: from a selected item of the flattened collapse-aware list, a move
\* down selects the item at the next position (the same item at the last
\* position) and a move up the item at the previous position (the same item
\* at the first position).
C28_MovesStepThroughList ==
    (TreeViewHasKeys /\ SelectedPos >= 0)
        => /\ PosOf(AfterKeyJ) = (IF SelectedPos + 1 < Len(VisibleItems)
                                  THEN SelectedPos + 1 ELSE SelectedPos)
           /\ PosOf(AfterKeyK) = (IF SelectedPos > 0 THEN SelectedPos - 1 ELSE 0)

\* C29: the selected node is visible: no proper prefix of selected_path is
\* collapsed, selected_path is an item of the flattened list, and the index
\* tui_list_items reports is the position of that item.
C29_SelectionVisible ==
    selected_path # <<>>
        => /\ \A n \in 1..(Len(selected_path) - 1) :
                  SubSeq(selected_path, 1, n) \notin collapsed_nodes
           /\ SelectedPos >= 0
           /\ tui_list_items(parsed_objects, selected_path,
                             collapsed_nodes).selected_idx = SelectedPos

(***************************************************************************)
(* Properties of the cursor primitives (specification SpecCursor)          *)
(***************************************************************************)
\* C30: through any sequence of calls the position stays within the input;
\* read_byte and read_n return the next bytes in order and advance by their
\* number; a read with too few bytes left returns None and keeps the
\* position; peek keeps the position; is_done holds exactly when peek
\* returns None.
C30_CursorPrimitives ==
    op \in {"peek", "read_byte", "read_n"}
        => /\ out.position \in 0..Len(input)
           /\ is_done(input, out.position) <=> ~peek(input, out.position).some
           /\ op = "peek"
                  => /\ out.position = out.before
                     /\ IF out.before < Len(input)
                        THEN out.kind = "Some" /\ out.bytes = <<input[out.before + 1]>>
                        ELSE out.kind = "None"
           /\ op = "read_byte"
                  => IF out.before < Len(input)
                     THEN /\ out.kind = "Some"
                          /\ out.bytes = <<input[out.before + 1]>>
                          /\ out.position = out.before + 1
                     ELSE out.kind = "None" /\ out.position = out.before
           /\ op = "read_n"
                  => IF IsSmall(out.n) /\ out.before + Low(out.n) <= Len(input)
                     THEN /\ out.kind = "Some"
                          /\ out.bytes = SubSeq(input, out.before + 1,
                                                out.before + Low(out.n))
                          /\ out.position = out.before + Low(out.n)
                     ELSE out.kind = "None" /\ out.position = out.before

====
